---------------------------- MODULE Spec2Model ----------------------------
(***************************************************************************)
(* A model of hw/arm/apple-silicon/dtb.c: the device-tree node tree, its   *)
(* property store, the path resolver, the placeholder resolver, the size   *)
(* calculator, the serialiser and the deserialiser.                        *)
(*                                                                         *)
(* Representation.                                                         *)
(*   - A byte is an integer 0..255; a C string is the sequence of its      *)
(*     bytes before the terminating NUL; a buffer is a sequence of bytes.  *)
(*   - A DTBNode is a record [props, children]; props is the set of the    *)
(*     hash table's entries [key, length, data, placeholder] and children  *)
(*     the GList as a sequence of nodes.  prop->data == NULL is data = <<>>*)
(*   - A DTBNode pointer is the sequence of child indices leading from     *)
(*     the root to the node; NULL is <<0>> (no child has index 0).         *)
(***************************************************************************)
EXTENDS Integers, Sequences, FiniteSets, TLC

VARIABLES root,     \* the tree the caller owns
          call,     \* the last operation: its name, arguments and outcome
          sized,    \* outcome of the last size pass over the unchanged tree
          emitted,  \* outcome of the last serialise pass over the unchanged tree
          input     \* the bytes handed to the operation under test

vars == <<root, call, sized, emitted, input>>

---------------------------------------------------------------------------
(* Program constants *)

DT_PROP_NAME_LEN == 32

\* DT_PROP_PLACEHOLDER is bit 31 of the length field: bit 7 (value 128) of the
\* most significant of its four little-endian bytes.
DT_PROP_PLACEHOLDER_BYTE == 128

Slash == 47
Comma == 44

\* The NULL pointer, for node pointers and for char pointers alike.
NULL == <<0>>

\* "name"
STR_name == <<110, 97, 109, 101>>

---------------------------------------------------------------------------
(* Bounds of the model *)

\* dtb_create_node is not called once the tree holds this many nodes.
MaxNodes == 3

---------------------------------------------------------------------------
(* Sequences of bytes *)

Min(a, b) == IF a < b THEN a ELSE b

Max(a, b) == IF a > b THEN a ELSE b

Take(s, n) == SubSeq(s, 1, Min(n, Len(s)))

Drop(s, n) == SubSeq(s, n + 1, Len(s))

\* Index of the first occurrence of byte c in s, 0 when there is none.
IndexOf(s, c) ==
    IF \E i \in 1..Len(s) : s[i] = c
    THEN CHOOSE i \in 1..Len(s) : s[i] = c /\ \A j \in 1..(i - 1) : s[j] # c
    ELSE 0

Zeros(n) == [i \in 1..n |-> 0]

\* The C string stored at the start of a NUL-terminated buffer.
CStr(bytes) == SubSeq(bytes, 1, IndexOf(bytes, 0) - 1)

\* strncmp(data, token, n) == 0, where data is a buffer of n bytes and token a
\* C string: bytes are compared up to n, stopping after a NUL common to both.
\* Mutant: the comparison is bounded by the token's length instead, so a
\* token that is a strict prefix of the stored name compares equal.
RECURSIVE StrncmpFrom_TokenBound(_, _, _, _)
StrncmpFrom_TokenBound(data, tokz, n, i) ==
    IF i > n THEN TRUE
    ELSE IF tokz[i] = 0 THEN TRUE
    ELSE IF data[i] # tokz[i] THEN FALSE
    ELSE StrncmpFrom_TokenBound(data, tokz, n, i + 1)

RECURSIVE StrncmpFrom(_, _, _, _)
StrncmpFrom(data, tokz, n, i) ==
    IF i > n THEN TRUE
    ELSE IF data[i] # tokz[i] THEN FALSE
    ELSE IF data[i] = 0 THEN TRUE
    ELSE StrncmpFrom(data, tokz, n, i + 1)

StrncmpEq(data, token, n) == StrncmpFrom(data, token \o <<0>>, n, 1)

\* strncmp(token, prefix, Len(prefix)) == 0 for a prefix without NUL.
HasPrefix(token, prefix) ==
    Len(token) >= Len(prefix) /\ SubSeq(token, 1, Len(prefix)) = prefix

\* qemu_strsep(&next, delim) on next # NULL: the token before the first
\* delimiter and the new value of next (NULL when no delimiter is left).
qemu_strsep(next, delim) ==
    LET i == IndexOf(next, delim)
    IN  IF i = 0 THEN [token |-> next, next |-> NULL]
        ELSE [token |-> SubSeq(next, 1, i - 1), next |-> Drop(next, i)]

---------------------------------------------------------------------------
(* Nodes and pointers to them *)

\* dtb_new_node: no properties, no children.
dtb_new_node == [props |-> {}, children |-> <<>>]

RECURSIVE NodeAt(_, _)
NodeAt(t, p) == IF p = <<>> THEN t ELSE NodeAt(t.children[Head(p)], Tail(p))

\* The tree t with the node at p replaced by s.
RECURSIVE ReplaceAt(_, _, _)
ReplaceAt(t, p, s) ==
    IF p = <<>> THEN s
    ELSE [t EXCEPT !.children[Head(p)] = ReplaceAt(@, Tail(p), s)]

\* The pointers to all nodes of t.
RECURSIVE Pointers(_)
Pointers(t) ==
    {<<>>} \cup UNION {{<<i>> \o q : q \in Pointers(t.children[i])} :
                        i \in 1..Len(t.children)}

RECURSIVE SumOver(_, _)
SumOver(f, S) ==
    IF S = {} THEN 0
    ELSE LET x == CHOOSE y \in S : TRUE IN f[x] + SumOver(f, S \ {x})

NodeCount(t) == Cardinality(Pointers(t))

PropCount(t) ==
    LET P == Pointers(t)
    IN  SumOver([p \in P |-> Cardinality(NodeAt(t, p).props)], P)

---------------------------------------------------------------------------
(* Property store *)

\* The NULL DTBProp pointer: no stored entry has a NULL key.
NULLPROP == [key |-> NULL, length |-> 0, data |-> <<>>, placeholder |-> FALSE]

\* g_hash_table_lookup: the entry stored under the key, or NULL.
dtb_find_prop(node, name) ==
    IF \E e \in node.props : e.key = name
    THEN CHOOSE e \in node.props : e.key = name
    ELSE NULLPROP

\* g_hash_table_insert: the entry replaces whatever the key held.
HashInsert(props, entry) == {e \in props : e.key # entry.key} \cup {entry}

\* Mutant: no lookup; the new entry is added beside whatever the key held.
dtb_set_prop_NoLookup(node, name, size, val) ==
    [node EXCEPT !.props = @ \cup {[key |-> name, length |-> size,
                                     data |-> Take(val, size),
                                     placeholder |-> FALSE]}]

\* The precondition assertions of dtb_set_prop; val = NULL is data = <<>>.
SetPropAsserts(name, size, val) ==
    /\ (val = <<>>) <=> (size = 0)
    /\ Len(name) < DT_PROP_NAME_LEN

\* dtb_set_prop past its assertions: the node with the property set.  A new
\* entry is inserted; an existing one is cleared and overwritten in place.
dtb_set_prop(node, name, size, val) ==
    LET prop == dtb_find_prop(node, name)
        new  == [key |-> name, length |-> size, data |-> Take(val, size),
                 placeholder |-> FALSE]
    IN  IF prop = NULLPROP
        THEN [node EXCEPT !.props = HashInsert(@, new)]
        ELSE [node EXCEPT !.props = (@ \ {prop}) \cup {new}]

\* dtb_set_prop_str: the string with its terminating NUL.
dtb_set_prop_str(node, name, val) ==
    dtb_set_prop(node, name, Len(val) + 1, val \o <<0>>)

\* dtb_remove_prop_named: g_hash_table_remove.
dtb_remove_prop_named(node, name) ==
    [node EXCEPT !.props = {e \in @ : e.key # name}]

---------------------------------------------------------------------------
(* Path resolver *)

\* The match test of dtb_get_node's inner loop on one child.
NameMatches(child, token) ==
    LET prop == dtb_find_prop(child, STR_name)
    IN  /\ prop # NULLPROP
        /\ StrncmpEq(prop.data, token, prop.length)

\* Index of the first child the inner loop accepts, 0 when found stays false.
FirstMatch(children, token) ==
    IF \E i \in 1..Len(children) : NameMatches(children[i], token)
    THEN CHOOSE i \in 1..Len(children) :
            /\ NameMatches(children[i], token)
            /\ \A j \in 1..(i - 1) : ~NameMatches(children[j], token)
    ELSE 0

\* Mutant: the loop without its "if (*token == '\0') continue;".
RECURSIVE GetNodeLoop_NoSkip(_, _, _)
GetNodeLoop_NoSkip(t, node, next) ==
    IF node = NULL \/ next = NULL THEN node
    ELSE LET s == qemu_strsep(next, Slash)
             c == FirstMatch(NodeAt(t, node).children, s.token)
         IN  IF c = 0 THEN NULL
             ELSE GetNodeLoop_NoSkip(t, node \o <<c>>, s.next)

\* The while loop of dtb_get_node: node is the current node, next the rest
\* of the duplicated path.
RECURSIVE GetNodeLoop(_, _, _)
GetNodeLoop(t, node, next) ==
    IF node = NULL \/ next = NULL THEN node
    ELSE LET s == qemu_strsep(next, Slash)
         IN  IF s.token = <<>> THEN GetNodeLoop(t, node, s.next)
             ELSE LET c == FirstMatch(NodeAt(t, node).children, s.token)
                  IN  IF c = 0 THEN NULL
                      ELSE GetNodeLoop(t, node \o <<c>>, s.next)

\* dtb_get_node(node, path) in tree t: a pointer or NULL.
dtb_get_node(t, node, path) == GetNodeLoop(t, node, path)

---------------------------------------------------------------------------
(* Node tree *)

\* dtb_create_node(parent, name) for parent # NULL: the returned pointer and
\* the tree afterwards.
dtb_create_node(t, parent, name) ==
    IF name = NULL \/ dtb_get_node(t, parent, name) # NULL
    THEN [ret |-> NULL, tree |-> t]
    ELSE LET node == dtb_set_prop_str(dtb_new_node, STR_name, name)
             par  == NodeAt(t, parent)
         IN  [ret  |-> parent \o <<Len(par.children) + 1>>,
              tree |-> ReplaceAt(t, parent,
                          [par EXCEPT !.children = Append(@, node)])]

\* dtb_remove_node(parent, node): the node must be one of parent's children
\* (pointer identity); otherwise g_assert_not_reached aborts.
RemoveNodeFound(parent, node) ==
    /\ node # NULL
    /\ Len(node) = Len(parent) + 1
    /\ SubSeq(node, 1, Len(parent)) = parent

RemoveAt(s, i) == SubSeq(s, 1, i - 1) \o SubSeq(s, i + 1, Len(s))

dtb_remove_node(t, parent, node) ==
    LET par == NodeAt(t, parent)
    IN  ReplaceAt(t, parent,
            [par EXCEPT !.children = RemoveAt(@, node[Len(node)])])

\* dtb_remove_node_named(parent, name): "false", "true", or "abort" when
\* dtb_remove_node reaches g_assert_not_reached; and the tree afterwards.
dtb_remove_node_named(t, parent, name) ==
    LET node == dtb_get_node(t, parent, name)
    IN  IF node = NULL THEN [ret |-> "false", tree |-> t]
        ELSE IF RemoveNodeFound(parent, node)
        THEN [ret |-> "true", tree |-> dtb_remove_node(t, parent, node)]
        ELSE [ret |-> "abort", tree |-> t]

---------------------------------------------------------------------------
(* Wire format helpers *)

\* stl_le_p of a value below 2^31: four bytes, least significant first.
stl_le_p(n) ==
    <<n % 256, (n \div 256) % 256, (n \div 65536) % 256, n \div 16777216>>

\* A byte of memory; what lies past the end of mem reads as zero here, and
\* the callers record how far they read (see Deserialise for the other
\* outcome of reading there).
ByteAt(mem, i) == IF i <= Len(mem) THEN mem[i] ELSE 0

\* ldl_le_p at index pos: bit 31 apart from the low 31 bits.
ldl_le_p(mem, pos) ==
    [bit31 |-> ByteAt(mem, pos + 3) >= DT_PROP_PLACEHOLDER_BYTE,
     low31 |-> ByteAt(mem, pos) + 256 * ByteAt(mem, pos + 1)
               + 65536 * ByteAt(mem, pos + 2)
               + 16777216 * (ByteAt(mem, pos + 3) % DT_PROP_PLACEHOLDER_BYTE)]

\* ROUND_UP(n, 4); every length of the model stays far below 2^32 - 3, where
\* the 32-bit sum would wrap.
ROUND_UP4(n) == ((n + 3) \div 4) * 4

\* strncpy(buf, key, DT_PROP_NAME_LEN): the name, cut or NUL-padded to 32.
NameField(key) ==
    Take(key, DT_PROP_NAME_LEN) \o Zeros(DT_PROP_NAME_LEN - Min(Len(key), DT_PROP_NAME_LEN))

\* Bytes the serialiser skips without writing: they keep what the caller's
\* buffer held, zero for the g_malloc0'ed buffer callers pass.
Skipped(n) == Zeros(n)

\* The order in which a GHashTableIter visits the entries: unspecified, and
\* the same for every traversal of an unmodified table.
RECURSIVE IterOrder(_)
IterOrder(props) ==
    IF props = {} THEN <<>>
    ELSE LET e == CHOOSE x \in props : TRUE
         IN  <<e>> \o IterOrder(props \ {e})

---------------------------------------------------------------------------
(* Placeholder resolver *)

\* "macaddr/", "syscfg/", "zeroes/"
STR_macaddr == <<109, 97, 99, 97, 100, 100, 114, 47>>
STR_syscfg == <<115, 121, 115, 99, 102, 103, 47>>
STR_zeroes == <<122, 101, 114, 111, 101, 115, 47>>

IsSpace(c) == c = 32 \/ (c >= 9 /\ c <= 13)

\* The value of a byte as a digit, 99 when it is none.
DigitValue(c) ==
    IF c >= 48 /\ c <= 57 THEN c - 48
    ELSE IF c >= 65 /\ c <= 90 THEN c - 55
    ELSE IF c >= 97 /\ c <= 122 THEN c - 87
    ELSE 99

RECURSIVE ParseDigits(_, _, _)
ParseDigits(s, base, acc) ==
    IF s = <<>> \/ DigitValue(Head(s)) >= base THEN acc
    ELSE ParseDigits(Tail(s), base, acc * base + DigitValue(Head(s)))

RECURSIVE SkipSpace(_)
SkipSpace(s) == IF s # <<>> /\ IsSpace(Head(s)) THEN SkipSpace(Tail(s)) ELSE s

\* (uint32_t)g_ascii_strtoull(s, NULL, 0) on a C string: white space and a
\* '+' are skipped, "0x"/"0X" selects base 16, another leading "0" base 8,
\* anything else base 10; the digits of that base are converted up to the
\* first other byte; 0 when there is no digit.  The texts of the model carry
\* no '-' and no number of 2^31 or more.
g_ascii_strtoull(str) ==
    LET s1 == SkipSpace(str)
        s2 == IF s1 # <<>> /\ Head(s1) = 43 THEN Tail(s1) ELSE s1
        hex == Len(s2) >= 2 /\ s2[1] = 48 /\ s2[2] \in {88, 120}
        base == IF hex THEN 16 ELSE IF s2 # <<>> /\ s2[1] = 48 THEN 8 ELSE 10
        s3 == IF hex THEN Drop(s2, 2) ELSE s2
    IN  ParseDigits(s3, base, 0)

\* Mutant: a zeroes/ token whose number is 0 is passed over like a syscfg/
\* token whose number is 0.
RECURSIVE PlaceholderLoop_ZeroesContinue(_)
PlaceholderLoop_ZeroesContinue(next) ==
    IF next = NULL THEN 0
    ELSE LET s == qemu_strsep(next, Comma)
             token == s.token
         IN  IF token = <<>> THEN PlaceholderLoop_ZeroesContinue(s.next)
             ELSE IF HasPrefix(token, STR_macaddr) THEN 6
             ELSE IF HasPrefix(token, STR_syscfg) THEN
                 IF Len(token) < 12 \/ token[12] # Slash
                 THEN PlaceholderLoop_ZeroesContinue(s.next)
                 ELSE LET len == g_ascii_strtoull(Drop(token, 12))
                      IN  IF len = 0 THEN PlaceholderLoop_ZeroesContinue(s.next)
                          ELSE len
             ELSE IF HasPrefix(token, STR_zeroes) THEN
                 LET len == g_ascii_strtoull(Drop(token, 7))
                 IN  IF len = 0 THEN PlaceholderLoop_ZeroesContinue(s.next)
                     ELSE len
             ELSE PlaceholderLoop_ZeroesContinue(s.next)

\* The while loop of dtb_get_placeholder_size over the rest of the text.
\* token[11] of the code is the twelfth byte, token[12] here.
RECURSIVE PlaceholderLoop(_)
PlaceholderLoop(next) ==
    IF next = NULL THEN 0
    ELSE LET s == qemu_strsep(next, Comma)
             token == s.token
         IN  IF token = <<>> THEN PlaceholderLoop(s.next)
             ELSE IF HasPrefix(token, STR_macaddr) THEN 6
             ELSE IF HasPrefix(token, STR_syscfg) THEN
                 IF Len(token) < 12 \/ token[12] # Slash
                 THEN PlaceholderLoop(s.next)
                 ELSE LET len == g_ascii_strtoull(Drop(token, 12))
                      IN  IF len = 0 THEN PlaceholderLoop(s.next) ELSE len
             ELSE IF HasPrefix(token, STR_zeroes) THEN
                 g_ascii_strtoull(Drop(token, 7))
             ELSE PlaceholderLoop(s.next)

\* The text qemu_strsep scans: the copy is prop->length bytes with no
\* terminator added, so the scan runs on into whatever the heap holds after
\* the copy (tail: those bytes up to their first NUL) unless the stored bytes
\* hold a NUL themselves.
ScannedText(prop, tail) == CStr(prop.data \o tail)

\* dtb_get_placeholder_size past its assertion prop->length > 0.
dtb_get_placeholder_size(prop, tail) == PlaceholderLoop(ScannedText(prop, tail))

\* The assertion at the head of dtb_get_placeholder_size fails.
PlaceholderAsserts(prop) == prop.length > 0

---------------------------------------------------------------------------
(* Size calculator *)

\* The heap tail met when the placeholder stored under a key is copied.
TailFor(tails, key) == IF key \in DOMAIN tails THEN tails[key] ELSE <<0>>

\* dtb_get_serialised_prop_size.
dtb_get_serialised_prop_size(prop, tails) ==
    IF prop.placeholder
    THEN LET placeholder_size ==
                 dtb_get_placeholder_size(prop, TailFor(tails, prop.key))
         IN  IF placeholder_size = 0 THEN 0
             ELSE DT_PROP_NAME_LEN + 4 + ROUND_UP4(placeholder_size)
    ELSE DT_PROP_NAME_LEN + 4 + ROUND_UP4(prop.length)

RECURSIVE SumSeq(_)
SumSeq(s) == IF s = <<>> THEN 0 ELSE Head(s) + SumSeq(Tail(s))

\* dtb_get_serialised_node_size when no assertion fails on the way.
RECURSIVE dtb_get_serialised_node_size(_, _)
dtb_get_serialised_node_size(node, tails) ==
    LET order == IterOrder(node.props)
    IN  4 + 4
        + SumSeq([i \in 1..Len(order) |->
                    dtb_get_serialised_prop_size(order[i], tails)])
        + SumSeq([i \in 1..Len(node.children) |->
                    dtb_get_serialised_node_size(node.children[i], tails)])

\* Some placeholder of the tree fails the resolver's assertion: either pass
\* aborts when it comes to it.
RECURSIVE HitsAssertion(_)
HitsAssertion(node) ==
    \/ \E e \in node.props : e.placeholder /\ ~PlaceholderAsserts(e)
    \/ \E i \in 1..Len(node.children) : HitsAssertion(node.children[i])

---------------------------------------------------------------------------
(* Serialiser *)

RECURSIVE Concat(_)
Concat(ss) == IF ss = <<>> THEN <<>> ELSE Head(ss) \o Concat(Tail(ss))

\* What the property loop of dtb_serialise_node writes for one entry: nothing
\* for a placeholder resolved to 0, else the name field, the length field and
\* the payload room.
SerialiseProp(prop, tails) ==
    IF prop.placeholder
    THEN LET placeholder_size ==
                 dtb_get_placeholder_size(prop, TailFor(tails, prop.key))
         IN  IF placeholder_size = 0 THEN <<>>
             ELSE NameField(prop.key) \o stl_le_p(placeholder_size)
                  \o Skipped(ROUND_UP4(placeholder_size))
    ELSE NameField(prop.key) \o stl_le_p(prop.length)
         \o (IF prop.length # 0
             THEN prop.data \o Skipped(ROUND_UP4(prop.length) - prop.length)
             ELSE <<>>)

\* Mutant: the loop without its "prop_count -= 1".
RECURSIVE dtb_serialise_node_NoDecrement(_, _)
dtb_serialise_node_NoDecrement(node, tails) ==
    LET order == IterOrder(node.props)
        recs  == [i \in 1..Len(order) |-> SerialiseProp(order[i], tails)]
    IN  stl_le_p(Cardinality(node.props))
        \o stl_le_p(Len(node.children))
        \o Concat(recs)
        \o Concat([i \in 1..Len(node.children) |->
                     dtb_serialise_node_NoDecrement(node.children[i], tails)])

\* dtb_serialise_node when no assertion fails on the way: the bytes from the
\* cursor's first position to its last.  prop_count starts at the table's
\* size and loses one for every placeholder resolved to 0.
RECURSIVE dtb_serialise_node(_, _)
dtb_serialise_node(node, tails) ==
    LET order   == IterOrder(node.props)
        recs    == [i \in 1..Len(order) |-> SerialiseProp(order[i], tails)]
        dropped == {i \in 1..Len(order) :
                      /\ order[i].placeholder
                      /\ dtb_get_placeholder_size(order[i],
                             TailFor(tails, order[i].key)) = 0}
    IN  stl_le_p(Cardinality(node.props) - Cardinality(dropped))
        \o stl_le_p(Len(node.children))
        \o Concat(recs)
        \o Concat([i \in 1..Len(node.children) |->
                     dtb_serialise_node(node.children[i], tails)])

---------------------------------------------------------------------------
(* Deserialiser *)

\* Mutant: the padded length is taken for the property's length, and the
\* padding with the payload.
dtb_deserialise_prop_PaddedLength(mem, pos) ==
    LET field    == [i \in 1..DT_PROP_NAME_LEN |-> ByteAt(mem, pos + i - 1)]
        nul      == IndexOf(field, 0)
        name_len == IF nul = 0 THEN DT_PROP_NAME_LEN ELSE nul - 1
        word     == ldl_le_p(mem, pos + DT_PROP_NAME_LEN)
        length   == ROUND_UP4(word.low31)
        at       == pos + DT_PROP_NAME_LEN + 4
    IN  [prop |-> [key |-> SubSeq(field, 1, name_len),
                   length |-> length,
                   data |-> [i \in 1..length |-> ByteAt(mem, at + i - 1)],
                   placeholder |-> word.bit31],
         pos  |-> IF length # 0 THEN at + length ELSE at,
         hi   |-> at + length - 1]

\* dtb_deserialise_prop at index pos: the property with its name, the
\* cursor afterwards, and the index of the last byte read.
dtb_deserialise_prop(mem, pos) ==
    LET field    == [i \in 1..DT_PROP_NAME_LEN |-> ByteAt(mem, pos + i - 1)]
        nul      == IndexOf(field, 0)
        name_len == IF nul = 0 THEN DT_PROP_NAME_LEN ELSE nul - 1
        word     == ldl_le_p(mem, pos + DT_PROP_NAME_LEN)
        length   == word.low31
        at       == pos + DT_PROP_NAME_LEN + 4
    IN  [prop |-> [key |-> SubSeq(field, 1, name_len),
                   length |-> length,
                   data |-> [i \in 1..length |-> ByteAt(mem, at + i - 1)],
                   placeholder |-> word.bit31],
         pos  |-> IF length # 0 THEN at + ROUND_UP4(length) ELSE at,
         hi   |-> at + length - 1]

\* The property loop of dtb_deserialise_node: n records from pos on, put
\* into props.  An empty name is parsed and not inserted; inserting a name
\* the table already holds fails g_assert_true(g_hash_table_insert(...)).
RECURSIVE DeserialiseProps(_, _, _, _, _)
DeserialiseProps(mem, pos, n, props, hi) ==
    IF n = 0 THEN [status |-> "ok", props |-> props, pos |-> pos, hi |-> hi]
    ELSE LET r == dtb_deserialise_prop(mem, pos)
         IN  IF r.prop.key = <<>>
             THEN DeserialiseProps(mem, r.pos, n - 1, props, Max(hi, r.hi))
             ELSE IF \E e \in props : e.key = r.prop.key
             THEN [status |-> "abort", props |-> props, pos |-> r.pos,
                   hi |-> Max(hi, r.hi)]
             ELSE DeserialiseProps(mem, r.pos, n - 1,
                                   HashInsert(props, r.prop), Max(hi, r.hi))

\* dtb_deserialise_node at index pos, and its loop over the children.
RECURSIVE dtb_deserialise_node(_, _)
RECURSIVE DeserialiseChildren(_, _, _, _, _)
DeserialiseChildren(mem, pos, n, children, hi) ==
    IF n = 0
    THEN [status |-> "ok", children |-> children, pos |-> pos, hi |-> hi]
    ELSE LET c == dtb_deserialise_node(mem, pos)
         IN  IF c.status # "ok"
             THEN [status |-> c.status, children |-> children, pos |-> c.pos,
                   hi |-> Max(hi, c.hi)]
             ELSE DeserialiseChildren(mem, c.pos, n - 1,
                                      Append(children, c.node), Max(hi, c.hi))

dtb_deserialise_node(mem, pos) ==
    LET prop_count     == ldl_le_p(mem, pos).low31
        children_count == ldl_le_p(mem, pos + 4).low31
        ps == DeserialiseProps(mem, pos + 8, prop_count, {}, pos + 7)
    IN  IF ps.status # "ok"
        THEN [status |-> ps.status, node |-> dtb_new_node, pos |-> ps.pos,
              hi |-> ps.hi]
        ELSE LET cs == DeserialiseChildren(mem, ps.pos, children_count,
                                           <<>>, ps.hi)
             IN  [status |-> cs.status,
                  node   |-> [props |-> ps.props, children |-> cs.children],
                  pos    |-> cs.pos,
                  hi     |-> cs.hi]

\* dtb_deserialise(dtb_blob) for a non-NULL blob.
dtb_deserialise(mem) == dtb_deserialise_node(mem, 1)

---------------------------------------------------------------------------
(* The tree API as a state machine: one action per call a caller makes *)

\* "a", "ab", "a/b"
CreateNames == {<<97>>, <<97, 98>>, <<97, 47, 98>>}

\* Paths and names handed to dtb_get_node and dtb_remove_node_named:
\* "", "a", "ab", "a/b", "a/ab", "/a//ab/"
LookupPaths ==
    {<<>>, <<97>>, <<97, 98>>, <<97, 47, 98>>, <<97, 47, 97, 98>>,
     <<47, 97, 47, 47, 97, 98, 47>>}

\* Property names handed to dtb_set_prop: "name"
PropKeys == {STR_name}

\* Payloads handed to dtb_set_prop: NULL, "a" without NUL
PropVals == {<<>>, <<97>>}

NoCall ==
    [op |-> "none", node |-> NULL, str |-> NULL, size |-> 0, val |-> <<>>,
     ptr |-> NULL, res |-> "none", tree |-> dtb_new_node, hi |-> 0]

\* No pass has run over the tree as it stands.
NoPass ==
    [done |-> FALSE, aborted |-> FALSE, size |-> 0, bytes |-> <<>>,
     tails |-> [k \in {} |-> <<0>>]]

Running == call.res # "abort"

CreateNode(parent, name) ==
    /\ Running
    /\ NodeCount(root) < MaxNodes
    /\ LET r == dtb_create_node(root, parent, name)
       IN  /\ root' = r.tree
           /\ call' = [NoCall EXCEPT !.op = "create_node", !.node = parent,
                                     !.str = name, !.ptr = r.ret]
    /\ sized' = NoPass
    /\ emitted' = NoPass
    /\ UNCHANGED input

SetProp(node, name, val) ==
    /\ Running
    /\ SetPropAsserts(name, Len(val), val)
    /\ root' = ReplaceAt(root, node,
                   dtb_set_prop(NodeAt(root, node), name, Len(val), val))
    /\ call' = [NoCall EXCEPT
                  !.op = "set_prop", !.node = node, !.str = name,
                  !.size = Len(val), !.val = val,
                  !.res = IF dtb_find_prop(NodeAt(root, node), name) # NULLPROP
                          THEN "replaced" ELSE "inserted"]
    /\ sized' = NoPass
    /\ emitted' = NoPass
    /\ UNCHANGED input

RemovePropNamed(node, name) ==
    /\ Running
    /\ root' = ReplaceAt(root, node,
                   dtb_remove_prop_named(NodeAt(root, node), name))
    /\ call' = [NoCall EXCEPT
                  !.op = "remove_prop_named", !.node = node, !.str = name,
                  !.res = IF dtb_find_prop(NodeAt(root, node), name) # NULLPROP
                          THEN "true" ELSE "false"]
    /\ sized' = NoPass
    /\ emitted' = NoPass
    /\ UNCHANGED input

RemoveNodeNamed(parent, name) ==
    /\ Running
    /\ LET r == dtb_remove_node_named(root, parent, name)
       IN  /\ root' = r.tree
           /\ call' = [NoCall EXCEPT !.op = "remove_node_named",
                                     !.node = parent, !.str = name,
                                     !.res = r.ret]
    /\ sized' = NoPass
    /\ emitted' = NoPass
    /\ UNCHANGED input

GetNode(node, path) ==
    /\ Running
    /\ call' = [NoCall EXCEPT !.op = "get_node", !.node = node, !.str = path,
                              !.ptr = dtb_get_node(root, node, path)]
    /\ UNCHANGED <<root, sized, emitted, input>>

\* dtb_create_node(NULL, NULL): a nameless root.
Init ==
    /\ root = dtb_new_node
    /\ call = NoCall
    /\ sized = NoPass
    /\ emitted = NoPass
    /\ input = <<>>

Next ==
    \/ \E p \in Pointers(root), n \in CreateNames \cup {NULL} : CreateNode(p, n)
    \/ \E p \in Pointers(root), k \in PropKeys, v \in PropVals : SetProp(p, k, v)
    \/ \E p \in Pointers(root), k \in PropKeys : RemovePropNamed(p, k)
    \/ \E p \in Pointers(root), n \in LookupPaths : RemoveNodeNamed(p, n)
    \/ \E p \in Pointers(root), n \in LookupPaths : GetNode(p, n)

Spec == Init /\ [][Next]_vars

---------------------------------------------------------------------------
(* Claims about the tree API, checked under Spec *)

\* The name property dtb_create_node gives a child called s: the bytes of s
\* and the terminating NUL, length strlen + 1.
HasCreatedName(node, s) ==
    LET prop == dtb_find_prop(node, STR_name)
    IN  /\ prop # NULLPROP
        /\ prop.length = Len(s) + 1
        /\ prop.data = s \o <<0>>

\* The name property has the form dtb_create_node gives it, for some name.
HasSomeCreatedName(node) ==
    LET prop == dtb_find_prop(node, STR_name)
    IN  /\ prop # NULLPROP
        /\ prop.length >= 1
        /\ Len(prop.data) = prop.length
        /\ IndexOf(prop.data, 0) = prop.length

ChildrenCalled(node, s) ==
    {i \in 1..Len(node.children) : HasCreatedName(node.children[i], s)}

\* C6: for every parent and every non-null name, the parent has at most one
\* child whose name property equals that name, whatever dtb_create_node calls
\* were made (a second call with a used name adds no child).
C6_OneChildPerName ==
    \A p \in Pointers(root) : \A n \in CreateNames :
        Cardinality(ChildrenCalled(NodeAt(root, p), n)) <= 1

\* The non-empty pieces of a string between delimiters, in order: the
\* maximal runs of bytes other than the delimiter.
PieceStarts(str, delim) ==
    {i \in 1..Len(str) : str[i] # delim /\ (i = 1 \/ str[i - 1] = delim)}

PieceFrom(str, delim, i) ==
    LET j == CHOOSE k \in i..Len(str) :
                /\ \A m \in i..k : str[m] # delim
                /\ (k = Len(str) \/ str[k + 1] = delim)
    IN  SubSeq(str, i, j)

RECURSIVE PiecesFrom(_, _, _)
PiecesFrom(str, delim, starts) ==
    IF starts = {} THEN <<>>
    ELSE LET i == CHOOSE k \in starts : \A m \in starts : k <= m
         IN  <<PieceFrom(str, delim, i)>>
             \o PiecesFrom(str, delim, starts \ {i})

Pieces(str, delim) == PiecesFrom(str, delim, PieceStarts(str, delim))

\* The non-empty segments of a path.
Segments(path) == Pieces(path, Slash)

\* Segment by segment: move to the first child, in child order, whose name
\* property matches; no node when a segment has none.
RECURSIVE Walk(_, _, _)
Walk(t, node, segs) ==
    IF segs = <<>> THEN node
    ELSE LET kids == NodeAt(t, node).children
             hits == {i \in 1..Len(kids) : NameMatches(kids[i], Head(segs))}
         IN  IF hits = {} THEN NULL
             ELSE Walk(t, node \o <<CHOOSE i \in hits : \A j \in hits : i <= j>>,
                       Tail(segs))

\* C7: dtb_get_node ignores empty segments and, for each non-empty segment in
\* order, moves to the first matching child; it returns the node reached, no
\* node as soon as a segment matches no child, and the starting node when the
\* path has no non-empty segment.
C7_GetNodeWalksSegments ==
    call.op = "get_node" =>
        /\ call.ptr = Walk(root, call.node, Segments(call.str))
        /\ Segments(call.str) = <<>> => call.ptr = call.node

\* A lookup of "/a//ab/" that skipped three empty segments and went down two
\* levels.
C7_Witness ==
    /\ call.op = "get_node"
    /\ call.str = <<47, 97, 47, 47, 97, 98, 47>>
    /\ call.ptr # NULL
    /\ Len(call.ptr) = Len(call.node) + 2

\* C8: dtb_remove_node_named returns true or false for any name; it never
\* reaches the g_assert_not_reached of dtb_remove_node.
C8_RemoveNamedReturnsBool ==
    call.op = "remove_node_named" => call.res \in {"true", "false"}

IsSingleSegment(path) == path # <<>> /\ IndexOf(path, Slash) = 0

\* C10: among children that carry the name property dtb_create_node gave
\* them, a one-segment lookup returns a child only if the segment equals the
\* child's name exactly (neither a strict prefix of it nor an extension), and
\* when every child carries such a name it returns the first child so named.
C10_ExactNameMatch ==
    (call.op = "get_node" /\ IsSingleSegment(call.str)) =>
        LET kids == NodeAt(root, call.node).children
        IN  /\ \A i \in 1..Len(kids) :
                (call.ptr = call.node \o <<i>> /\ HasSomeCreatedName(kids[i]))
                    => HasCreatedName(kids[i], call.str)
            /\ (\A i \in 1..Len(kids) : HasSomeCreatedName(kids[i])) =>
                   IF ChildrenCalled(NodeAt(root, call.node), call.str) = {}
                   THEN call.ptr = NULL
                   ELSE \E i \in ChildrenCalled(NodeAt(root, call.node), call.str) :
                          /\ call.ptr = call.node \o <<i>>
                          /\ \A j \in ChildrenCalled(NodeAt(root, call.node),
                                                     call.str) : i <= j

\* A lookup of "a" under a node whose only children are called "ab" and "a/b"
\* found nothing: the strict prefix did not match.
C10_Witness ==
    /\ call.op = "get_node"
    /\ call.str = <<97>>
    /\ call.ptr = NULL
    /\ LET kids == NodeAt(root, call.node).children
       IN  /\ Len(kids) = 2
           /\ HasCreatedName(kids[1], <<97, 98>>)
           /\ HasCreatedName(kids[2], <<97, 47, 98>>)

---------------------------------------------------------------------------
(* Blobs handed to dtb_deserialise *)

\* The length field of a placeholder record: bit 31 set over the length.
PlaceholderLengthField(n) ==
    <<n % 256, (n \div 256) % 256, (n \div 65536) % 256,
      (n \div 16777216) + DT_PROP_PLACEHOLDER_BYTE>>

\* A property record and a placeholder property record of the wire format.
Record(key, data) ==
    NameField(key) \o stl_le_p(Len(data)) \o data
    \o Zeros(ROUND_UP4(Len(data)) - Len(data))

PlaceholderRecord(key, text) ==
    NameField(key) \o PlaceholderLengthField(Len(text)) \o text
    \o Zeros(ROUND_UP4(Len(text)) - Len(text))

\* A node record: the two counts, the property records, the child nodes.
NodeRecord(records, kids) ==
    stl_le_p(Len(records)) \o stl_le_p(Len(kids))
    \o Concat(records) \o Concat(kids)

\* "p", "q"
STR_p == <<112>>
STR_q == <<113>>

\* "zeroes/1" with no NUL among its 8 bytes; then with their NUL: "zeroes/0",
\* "zeroes/5", "bogus", "" and "syscfg/ABCD/0,zeroes/5".
TXT_zeroes1_unterminated == <<122, 101, 114, 111, 101, 115, 47, 49>>
TXT_zeroes0 == <<122, 101, 114, 111, 101, 115, 47, 48, 0>>
TXT_zeroes5 == <<122, 101, 114, 111, 101, 115, 47, 53, 0>>
TXT_bogus == <<98, 111, 103, 117, 115, 0>>
TXT_nul == <<0>>
TXT_syscfg0_zeroes5 ==
    <<115, 121, 115, 99, 102, 103, 47, 65, 66, 67, 68, 47, 48, 44,
      122, 101, 114, 111, 101, 115, 47, 53, 0>>

\* Well-formed blobs: placeholders of each kind, one of stored length 0, a
\* record with an empty name, a child node, and a repeated property name.
InputBlobs ==
    {NodeRecord(<<PlaceholderRecord(STR_p, TXT_zeroes1_unterminated)>>, <<>>),
     NodeRecord(<<PlaceholderRecord(STR_p, TXT_zeroes0),
                  PlaceholderRecord(STR_q, TXT_zeroes5)>>, <<>>),
     NodeRecord(<<PlaceholderRecord(STR_p, TXT_bogus)>>, <<>>),
     NodeRecord(<<PlaceholderRecord(STR_p, TXT_nul)>>, <<>>),
     NodeRecord(<<PlaceholderRecord(STR_p, <<>>)>>, <<>>),
     NodeRecord(<<Record(<<>>, <<7>>)>>,
                <<NodeRecord(<<Record(STR_name, <<97, 0>>),
                               PlaceholderRecord(STR_p, TXT_syscfg0_zeroes5)>>,
                             <<>>)>>),
     NodeRecord(<<Record(STR_p, <<1>>), Record(STR_p, <<2>>)>>, <<>>)}

\* What the heap may hold right after a copied placeholder text, up to the
\* first NUL: a NUL at once, or the byte '6' first.
HeapTails == {<<0>>, <<54, 0>>}

---------------------------------------------------------------------------
(* Emission as a state machine: load or build a tree, size it, serialise it,
   read the result back *)

\* Bounds on the trees of SpecEmit.
MaxEmitNodes == 3
MaxEmitProps == 3

\* Names given to dtb_create_node: "a", "b"
EmitNames == {<<97>>, <<98>>}

\* Property names given to dtb_set_prop: "p", ""
EmitKeys == {STR_p, <<>>}

\* Payloads given to dtb_set_prop: NULL, five bytes
EmitVals == {<<>>, <<1, 2, 3, 4, 5>>}

RECURSIVE PlaceholderKeys(_)
PlaceholderKeys(node) ==
    {e.key : e \in {x \in node.props : x.placeholder}}
    \cup UNION {PlaceholderKeys(node.children[i]) : i \in 1..Len(node.children)}

\* root = dtb_deserialise(blob), as the first thing the caller does.
Load(blob) ==
    /\ call = NoCall
    /\ LET r == dtb_deserialise(blob)
       IN  /\ root' = IF r.status = "ok" THEN r.node ELSE root
           /\ call' = [NoCall EXCEPT !.op = "deserialise", !.res = r.status,
                                     !.hi = r.hi]
    /\ sized' = NoPass
    /\ emitted' = NoPass
    /\ UNCHANGED input

\* dtb_get_serialised_node_size(root).
SizePass(tails) ==
    /\ Running
    /\ sized' = [NoPass EXCEPT
                   !.done = TRUE, !.tails = tails,
                   !.aborted = HitsAssertion(root),
                   !.size = IF HitsAssertion(root) THEN 0
                            ELSE dtb_get_serialised_node_size(root, tails)]
    /\ call' = [NoCall EXCEPT
                  !.op = "get_serialised_node_size",
                  !.res = IF HitsAssertion(root) THEN "abort" ELSE "ok"]
    /\ UNCHANGED <<root, emitted, input>>

\* dtb_serialise(buf, root).
SerialisePass(tails) ==
    /\ Running
    /\ emitted' = [NoPass EXCEPT
                     !.done = TRUE, !.tails = tails,
                     !.aborted = HitsAssertion(root),
                     !.bytes = IF HitsAssertion(root) THEN <<>>
                               ELSE dtb_serialise_node(root, tails),
                     !.size = IF HitsAssertion(root) THEN 0
                              ELSE Len(dtb_serialise_node(root, tails))]
    /\ call' = [NoCall EXCEPT
                  !.op = "serialise",
                  !.res = IF HitsAssertion(root) THEN "abort" ELSE "ok"]
    /\ UNCHANGED <<root, sized, input>>

\* dtb_deserialise of the buffer the caller sized and serialised into.
Reload ==
    /\ Running
    /\ sized.done /\ emitted.done
    /\ emitted.size <= sized.size
    /\ LET buf == emitted.bytes \o Zeros(sized.size - emitted.size)
           r   == dtb_deserialise(buf)
       IN  call' = [NoCall EXCEPT !.op = "reload", !.res = r.status,
                                  !.tree = r.node, !.hi = r.hi,
                                  !.size = Len(buf)]
    /\ UNCHANGED <<root, sized, emitted, input>>

NextEmit ==
    \/ \E b \in InputBlobs : Load(b)
    \/ \E p \in Pointers(root), n \in EmitNames :
          NodeCount(root) < MaxEmitNodes /\ CreateNode(p, n)
    \/ \E p \in Pointers(root), k \in EmitKeys, v \in EmitVals :
          /\ \/ PropCount(root) < MaxEmitProps
             \/ dtb_find_prop(NodeAt(root, p), k) # NULLPROP
          /\ SetProp(p, k, v)
    \/ \E t \in [PlaceholderKeys(root) -> HeapTails] : SizePass(t)
    \/ \E t \in [PlaceholderKeys(root) -> HeapTails] : SerialisePass(t)
    \/ Reload

SpecEmit == Init /\ [][NextEmit]_vars

---------------------------------------------------------------------------
(* Claims about emission, checked under SpecEmit *)

BothPassesDone ==
    /\ sized.done /\ ~sized.aborted
    /\ emitted.done /\ ~emitted.aborted

\* C1: for every tree, the number of bytes the serialiser's cursor advances
\* equals dtb_get_serialised_node_size of the same, unmodified tree.
C1_SerialisedSizeAgrees == BothPassesDone => emitted.size = sized.size

RECURSIVE NoPlaceholder(_)
NoPlaceholder(node) ==
    /\ \A e \in node.props : ~e.placeholder
    /\ \A i \in 1..Len(node.children) : NoPlaceholder(node.children[i])

RECURSIVE NoEmptyName(_)
NoEmptyName(node) ==
    /\ \A e \in node.props : e.key # <<>>
    /\ \A i \in 1..Len(node.children) : NoEmptyName(node.children[i])

\* C2 as claimed: for a tree without placeholder properties, deserialising
\* what dtb_serialise wrote into a buffer of dtb_get_serialised_node_size
\* bytes gives a tree with the same properties (names, lengths, bytes) and
\* the same children in the same order at every level.
C2_RoundTrip ==
    (call.op = "reload" /\ NoPlaceholder(root)) =>
        call.res = "ok" /\ call.tree = root

\* C2 as amended: the same for a tree in which, besides, no property has the
\* empty name (every length of the model is below 2^31); and the
\* deserialiser reads no byte past the buffer.
C2_RoundTripNamedProps ==
    (call.op = "reload" /\ NoPlaceholder(root) /\ NoEmptyName(root)) =>
        /\ call.res = "ok"
        /\ call.tree = root
        /\ call.hi <= call.size

\* A round trip of a tree with two children in order and a property whose
\* five bytes are followed by three bytes of padding.
C2_Witness ==
    /\ call.op = "reload"
    /\ NoPlaceholder(root) /\ NoEmptyName(root)
    /\ Len(root.children) = 2
    /\ \E e \in root.props : e.length = 5
    /\ call.tree = root

\* The length a pass resolved a placeholder to.
ResolvedIn(pass, e) == dtb_get_placeholder_size(e, TailFor(pass.tails, e.key))

\* The tree without the placeholders a pass resolved to 0.
RECURSIVE Pruned(_, _)
Pruned(node, pass) ==
    [props    |-> {e \in node.props :
                     ~(e.placeholder /\ ResolvedIn(pass, e) = 0)},
     children |-> [i \in 1..Len(node.children) |->
                     Pruned(node.children[i], pass)]]

\* The names of the properties at every node, empty names apart.
RECURSIVE NameTree(_)
NameTree(node) ==
    [names    |-> {e.key : e \in node.props} \ {<<>>},
     children |-> [i \in 1..Len(node.children) |->
                     NameTree(node.children[i])]]

RECURSIVE HasEmptyPlaceholder(_)
HasEmptyPlaceholder(node) ==
    \/ \E e \in node.props : e.placeholder /\ e.length = 0
    \/ \E i \in 1..Len(node.children) : HasEmptyPlaceholder(node.children[i])

\* The stored text of a placeholder, read as a C string, resolves to 0.
TextResolvesToZero(e) == PlaceholderLoop(CStr(e.data \o <<0>>)) = 0

RECURSIVE EveryPlaceholderResolvesToZero(_)
EveryPlaceholderResolvesToZero(node) ==
    /\ \A e \in node.props : e.placeholder => TextResolvesToZero(e)
    /\ \A i \in 1..Len(node.children) :
          EveryPlaceholderResolvesToZero(node.children[i])

RECURSIVE UniqueNames(_)
UniqueNames(node) ==
    /\ \A e1 \in node.props : \A e2 \in node.props :
          e1.key = e2.key => e1 = e2
    /\ \A i \in 1..Len(node.children) : UniqueNames(node.children[i])

\* C9: every node holds at most one property per name; dtb_set_prop on a name
\* the node holds replaces that property without changing the number of
\* properties, on another name it adds exactly one; afterwards dtb_find_prop
\* of the name gives a property of the given length and bytes.
C9_SetPropStep ==
    /\ UniqueNames(root')
    /\ call'.op = "set_prop" =>
          LET before == NodeAt(root, call'.node)
              after  == NodeAt(root', call'.node)
              had    == \E e \in before.props : e.key = call'.str
              prop   == dtb_find_prop(after, call'.str)
          IN  /\ Cardinality(after.props)
                    = Cardinality(before.props) + (IF had THEN 0 ELSE 1)
              /\ prop # NULLPROP
              /\ prop.length = call'.size
              /\ prop.data = call'.val
              /\ Cardinality({e \in after.props : e.key = call'.str}) = 1

C9_OnePropertyPerName == [][C9_SetPropStep]_vars

\* dtb_set_prop has just replaced a property that came from a blob as a
\* placeholder.
C9_Witness ==
    /\ call.op = "set_prop"
    /\ call.res = "replaced"
    /\ call.str = STR_p
    /\ call.size = 5
    /\ dtb_find_prop(NodeAt(root, call.node), STR_p).data = call.val

---------------------------------------------------------------------------
(* The placeholder resolver on its own: Init draws the stored text, the one
   action resolves it *)

\* At most this many tokens make up a text.
MaxTokens == 2

\* "", "macaddr/x", "syscfg/ABCD/16", "syscfg/ABCD/0", "syscfg/AB/4" (no '/'
\* at offset 11), "zeroes/0", "zeroes/0x10", "zeroes/010", "bogus"
ResolverTokens ==
    {<<>>,
     <<109, 97, 99, 97, 100, 100, 114, 47, 120>>,
     <<115, 121, 115, 99, 102, 103, 47, 65, 66, 67, 68, 47, 49, 54>>,
     <<115, 121, 115, 99, 102, 103, 47, 65, 66, 67, 68, 47, 48>>,
     <<115, 121, 115, 99, 102, 103, 47, 65, 66, 47, 52>>,
     <<122, 101, 114, 111, 101, 115, 47, 48>>,
     <<122, 101, 114, 111, 101, 115, 47, 48, 120, 49, 48>>,
     <<122, 101, 114, 111, 101, 115, 47, 48, 49, 48>>,
     <<98, 111, 103, 117, 115>>}

RECURSIVE JoinWith(_, _)
JoinWith(tokens, delim) ==
    IF Len(tokens) = 0 THEN <<>>
    ELSE IF Len(tokens) = 1 THEN tokens[1]
    ELSE tokens[1] \o <<delim>> \o JoinWith(Tail(tokens), delim)

\* The stored bytes of a placeholder: tokens joined by commas, with the
\* string's NUL inside the stored length or without it.
ResolverTexts ==
    {JoinWith(l, Comma) \o z :
        l \in UNION {[1..n -> ResolverTokens] : n \in 1..MaxTokens},
        z \in {<<0>>, <<>>}}

InitResolve ==
    /\ root = dtb_new_node
    /\ call = NoCall
    /\ sized = NoPass
    /\ emitted = NoPass
    /\ input \in ResolverTexts

\* dtb_get_placeholder_size on a placeholder holding the input bytes; str is
\* the text the scan saw.
Resolve(tail) ==
    /\ call = NoCall
    /\ LET prop == [key |-> STR_p, length |-> Len(input), data |-> input,
                    placeholder |-> TRUE]
       IN  call' = IF PlaceholderAsserts(prop)
                   THEN [NoCall EXCEPT
                           !.op = "get_placeholder_size", !.res = "ok",
                           !.str = ScannedText(prop, tail),
                           !.size = dtb_get_placeholder_size(prop, tail)]
                   ELSE [NoCall EXCEPT
                           !.op = "get_placeholder_size", !.res = "abort"]
    /\ UNCHANGED <<root, sized, emitted, input>>

NextResolve == \E tail \in HeapTails : Resolve(tail)

SpecResolve == InitResolve /\ [][NextResolve]_vars

\* A syscfg token of the shape syscfg/XXXX/NNN and the number it carries.
WellShapedSyscfg(token) ==
    HasPrefix(token, STR_syscfg) /\ Len(token) >= 12 /\ token[12] = Slash

\* The first token of the sequence that decides, by the given rule; 0 when
\* none does.  A rule gives [decides, length] for a token.
RECURSIVE FirstDecision(_, _)
FirstDecision(tokens, rule) ==
    IF tokens = <<>> THEN 0
    ELSE IF rule[Head(tokens)].decides THEN rule[Head(tokens)].length
    ELSE FirstDecision(Tail(tokens), rule)

\* The rule as claimed: macaddr/ decides 6, a well-shaped syscfg and a
\* zeroes/ decide their parsed number, 0 included.
RuleAsClaimed(tokens) ==
    [t \in {tokens[i] : i \in 1..Len(tokens)} |->
       IF HasPrefix(t, STR_macaddr) THEN [decides |-> TRUE, length |-> 6]
       ELSE IF WellShapedSyscfg(t)
       THEN [decides |-> TRUE, length |-> g_ascii_strtoull(Drop(t, 12))]
       ELSE IF HasPrefix(t, STR_zeroes)
       THEN [decides |-> TRUE, length |-> g_ascii_strtoull(Drop(t, 7))]
       ELSE [decides |-> FALSE, length |-> 0]]

\* The rule as amended: a well-shaped syscfg token decides only when its
\* number is not 0.
RuleAsAmended(tokens) ==
    [t \in {tokens[i] : i \in 1..Len(tokens)} |->
       IF HasPrefix(t, STR_macaddr) THEN [decides |-> TRUE, length |-> 6]
       ELSE IF WellShapedSyscfg(t) /\ g_ascii_strtoull(Drop(t, 12)) # 0
       THEN [decides |-> TRUE, length |-> g_ascii_strtoull(Drop(t, 12))]
       ELSE IF HasPrefix(t, STR_zeroes)
       THEN [decides |-> TRUE, length |-> g_ascii_strtoull(Drop(t, 7))]
       ELSE [decides |-> FALSE, length |-> 0]]

\* C4 as claimed: the first token of the form macaddr/..., well-shaped
\* syscfg/XXXX/NNN or zeroes/NNN decides alone, a number of 0 included; 0
\* when no token matches.
C4_FirstMatchDecides ==
    (call.op = "get_placeholder_size" /\ call.res = "ok") =>
        LET tokens == Pieces(call.str, Comma)
        IN  call.size = FirstDecision(tokens, RuleAsClaimed(tokens))

\* C4 as amended: a well-shaped syscfg token whose number parses to 0 is
\* passed over and the scan goes on to the later tokens; a macaddr/ token, a
\* well-shaped syscfg token with a non-zero number, or a zeroes/ token (its
\* number 0 included) decides alone; 0 when none does.
C4_FirstMatchDecidesUnlessSyscfgZero ==
    (call.op = "get_placeholder_size" /\ call.res = "ok") =>
        LET tokens == Pieces(call.str, Comma)
        IN  call.size = FirstDecision(tokens, RuleAsAmended(tokens))

\* "zeroes/0,macaddr/x" resolved to 0: the later token was not consulted.
C4_Witness ==
    /\ call.op = "get_placeholder_size"
    /\ call.str = <<122, 101, 114, 111, 101, 115, 47, 48, 44,
                    109, 97, 99, 97, 100, 100, 114, 47, 120>>
    /\ call.size = 0

---------------------------------------------------------------------------
(* The deserialiser on cut-off buffers: Init draws the buffer, the one
   action deserialises it *)

\* Two well-formed blobs: a root with a one-byte property and a child called
\* "a"; a root with a placeholder and a five-byte property.
WholeBlobs ==
    {NodeRecord(<<Record(STR_p, <<7>>)>>,
                <<NodeRecord(<<Record(STR_name, <<97, 0>>)>>, <<>>)>>),
     NodeRecord(<<PlaceholderRecord(STR_p, TXT_zeroes5),
                  Record(STR_q, <<1, 2, 3, 4, 5>>)>>, <<>>)}

\* Every buffer that holds a non-empty strict prefix of one of them.
CutOffBlobs == UNION {{Take(b, n) : n \in 1..(Len(b) - 1)} : b \in WholeBlobs}

InitDeser ==
    /\ root = dtb_new_node
    /\ call = NoCall
    /\ sized = NoPass
    /\ emitted = NoPass
    /\ input \in CutOffBlobs

\* dtb_deserialise(input).  The function is given no length; what it reads
\* past the buffer is either zero bytes (beyond = "zero") or unmapped memory
\* (beyond = "unmapped": the process dies on the first such read).  res is
\* "ok" when a node is returned, "abort" when an assertion failed, "segv"
\* when the process died; a NULL return would be "null".
Deserialise(beyond) ==
    /\ call = NoCall
    /\ LET r == dtb_deserialise(input)
       IN  call' = IF r.hi > Len(input) /\ beyond = "unmapped"
                   THEN [NoCall EXCEPT !.op = "deserialise", !.res = "segv",
                                       !.hi = r.hi]
                   ELSE [NoCall EXCEPT !.op = "deserialise", !.res = r.status,
                                       !.tree = r.node, !.hi = r.hi]
    /\ UNCHANGED <<root, sized, emitted, input>>

NextDeser == \E beyond \in {"zero", "unmapped"} : Deserialise(beyond)

SpecDeser == InitDeser /\ [][NextDeser]_vars

\* C3: deserialising a buffer cut off inside a property record or inside a
\* node's counts returns no node, and reads no byte past the buffer's end.
C3_CutOffBlobFails ==
    call.op = "deserialise" => call.res = "null" /\ call.hi <= Len(input)

===========================================================================
